---- MODULE Spec2Model ----
(***************************************************************************)
(* A model of the programs of llm-websocket-server-example:                *)
(*   - RetellVoceraAdapter (retell_adaptor.py): two websocket servers, a   *)
(*     registry of clients per side, and the translation of messages       *)
(*     between the two sides;                                              *)
(*   - VoiceFlowAdapter (voiceflow_adapter.py): one websocket server, a    *)
(*     session per client, a launch thread per connection and the          *)
(*     VoiceFlow REST collaborator;                                        *)
(*   - the chat demo (main.py): one handler per websocket and a chat       *)
(*     history per session id.                                             *)
(* Each is a program of its own (its own __main__), so a behaviour runs    *)
(* one of them: Init chooses which.  Spec is the two adapters, from the    *)
(* call of start() to KeyboardInterrupt; SpecAll adds the chat demo.       *)
(*                                                                         *)
(* Text is a sequence of one-character strings, so that strip(), lower(),  *)
(* the "in" test and " ".join() are computed, not assumed.  A JSON value   *)
(* is a tagged record: [t |-> "absent"], [t |-> "null"], [t |-> "int", n |-> ..], *)
(* [t |-> "str", s |-> ..].                                                *)
(***************************************************************************)
EXTENDS Integers, Sequences, FiniteSets, TLC

VARIABLES
    program,            \* which adapter this process runs
    main_pc,            \* position of the main thread in __main__
    start_result,       \* what adapter.start() returned ("none" before it)
    exit_code,          \* exit status of the process, a JSON value
    \* ---- RetellVoceraAdapter
    retell_clients,     \* self.retell_clients: the keys, in insertion order
    vocera_clients,     \* self.vocera_clients: the keys, in insertion order
    last_response_id,   \* self.last_response_id, a JSON value
    retell_conns,       \* connections the Retell server holds open
    retell_connect_pc,  \* position of each Retell client's on_retell_connect
    vocera_conns,       \* connections the Vocera server holds open
    retell_id_counter,  \* the Retell server's client id counter
    vocera_id_counter,  \* the Vocera server's client id counter
    pending,            \* history, not adapter state: the response id Retell
                        \* asked for last, until a response carrying it is sent
    broadcast,          \* the send_to_vocera / send_to_retell loop under way
                        \* when its steps are followed one by one
    \* ---- VoiceFlowAdapter
    sessions,           \* self.sessions: client id -> [user_id]
    client_conns,       \* connections the client server holds open
    client_id_counter,  \* the client server's client id counter
    uuid_counter,       \* number of user ids generated so far
    sc_pc,              \* position of each client's start_conversation thread
    sc_user,            \* user_id read by each start_conversation thread
    \* ---- the chat demo (main.py)
    chat_histories,     \* chat_histories: session id -> list of entries
    ws_pc,              \* each websocket's handle_websocket: "none", "open", "closed"
    ws_id,              \* id(websocket) of each websocket object
    ws_counter,         \* number of connections accepted so far
    ws_asked,           \* history, not program state: whether a message of
                        \* each websocket has been given to chat_response
    \* ---- the last callback that ran
    ev,                 \* which callback, for which client, with which input
    out,                \* the send_message calls it made, in order
    raised              \* the exception that escaped it ("none" when none did)

retell_vars == <<retell_clients, vocera_clients, last_response_id, retell_conns,
                 retell_connect_pc,
                 vocera_conns, retell_id_counter, vocera_id_counter, pending>>
voiceflow_vars == <<sessions, client_conns, client_id_counter, uuid_counter,
                    sc_pc, sc_user>>
chat_vars == <<chat_histories, ws_pc, ws_id, ws_counter, ws_asked>>
process_vars == <<program, main_pc, start_result, exit_code>>
vars == <<process_vars, retell_vars, broadcast, voiceflow_vars, chat_vars, ev, out,
          raised>>

----------------------------------------------------------------------------
(* Bounds *)

\* connections each websocket server accepts in a behaviour
MaxClients == 2
\* largest response_id Retell uses (ids start at 0)
MaxResponseId == 1

\* chat_response is followed while fewer than this many entries are stored
MaxEntries == 13

ClientIds == 1..MaxClients
ResponseIds == 0..MaxResponseId

\* int(time.time() * 1000): the reading of the clock, which nothing compares
NOW_MS == "now_ms"

----------------------------------------------------------------------------
(* Text *)

IsSpace(ch) == ch \in {" ", "\t", "\n"}

RECURSIVE lstrip(_)
lstrip(s) == IF s # <<>> /\ IsSpace(Head(s)) THEN lstrip(Tail(s)) ELSE s

RECURSIVE rstrip(_)
rstrip(s) ==
    IF s # <<>> /\ IsSpace(s[Len(s)]) THEN rstrip(SubSeq(s, 1, Len(s) - 1)) ELSE s

\* the text as it came, not stripped
strip_forgotten(s) == s

\* str.strip()
strip(s) == rstrip(lstrip(s))

UPPER ==
    <<"A", "B", "C", "D", "E", "F", "G", "H", "I", "J", "K", "L", "M",
      "N", "O", "P", "Q", "R", "S", "T", "U", "V", "W", "X", "Y", "Z">>
LOWER ==
    <<"a", "b", "c", "d", "e", "f", "g", "h", "i", "j", "k", "l", "m",
      "n", "o", "p", "q", "r", "s", "t", "u", "v", "w", "x", "y", "z">>

LowerCh(ch) ==
    IF \E i \in 1..Len(UPPER) : UPPER[i] = ch
    THEN LOWER[CHOOSE i \in 1..Len(UPPER) : UPPER[i] = ch]
    ELSE ch

\* str.lower()
lower(s) == [i \in 1..Len(s) |-> LowerCh(s[i])]

\* sub in s
Contains(s, sub) ==
    \E i \in 0..(Len(s) - Len(sub)) : SubSeq(s, i + 1, i + Len(sub)) = sub

END_CALL == <<"e", "n", "d", " ", "c", "a", "l", "l">>
GOODBYE == <<"g", "o", "o", "d", "b", "y", "e">>

----------------------------------------------------------------------------
(* JSON values and json.loads *)

Absent == [t |-> "absent"]
Null == [t |-> "null"]
JInt(n) == [t |-> "int", n |-> n]
JStr(s) == [t |-> "str", s |-> s]

\* Python truthiness of a JSON value
Truthy(v) ==
    CASE v.t = "int" -> v.n # 0
      [] v.t = "str" -> v.s # <<>>
      [] OTHER -> FALSE

\* dict.get(key, default) on a field that may be absent: JSON null stays None
Get(v, default) == IF v.t = "absent" THEN default ELSE v

\* dict.get(key): an absent key reads as None
GetOrNone(v) == Get(v, Null)

\* A frame on the wire is text that json.loads rejects ("invalid"), or a JSON
\* value that is not an object ("array"), or an object ("object").
json_loads(raw) ==
    IF raw.json = "invalid" THEN [ok |-> FALSE] ELSE [ok |-> TRUE, data |-> raw]

IsObject(data) == data.json = "object"

----------------------------------------------------------------------------
(* Frames the peers send *)

T_hi == <<"h", "i">>
T_padded == <<" ", "h", "i", " ">>
T_blank == <<" ", "\t">>
T_bye == <<"G", "o", "o", "d", "b", "y", "e">>

Invalid == [json |-> "invalid"]
Array == [json |-> "array"]

\* {"content": ...}, as a Vocera client or a VoiceFlow client sends it
ContentFrame(v) == [json |-> "object", content |-> v]

\* what a Vocera client sends
VoceraFrames ==
    {Invalid, Array}
    \cup {ContentFrame(v) : v \in {Absent, Null, JStr(<<>>), JStr(T_blank),
                                   JStr(T_padded), JStr(T_bye)}}

\* what a VoiceFlow client sends
ClientFrames ==
    {Invalid, Array}
    \cup {ContentFrame(v) : v \in {Absent, Null, JStr(<<>>), JStr(T_blank),
                                   JStr(T_padded)}}

Utterance(v) == [json |-> "object", content |-> v]
List(items) == [t |-> "list", items |-> items]

RetellFrame(type, id, transcript) ==
    [json |-> "object", interaction_type |-> type, response_id |-> id,
     transcript |-> transcript]

PingFrame == RetellFrame("ping_pong", Absent, Absent)

\* what a Retell client sends
RetellFrames ==
    {Invalid, Array, PingFrame}
    \cup {RetellFrame(type, Absent, List(<<Utterance(JStr(T_hi))>>)) :
            type \in {"call_details", "update_only", "absent"}}
    \cup {RetellFrame("response_required", id, List(<<Utterance(JStr(T_hi))>>)) :
            id \in {Absent} \cup {JInt(n) : n \in ResponseIds}}
    \cup {RetellFrame("response_required", JInt(0), tr) :
            tr \in {Absent, List(<<>>), List(<<Array>>),
                    List(<<Utterance(JStr(T_bye)), Utterance(Absent)>>)}}
    \cup {RetellFrame("reminder_required", JInt(MaxResponseId),
                      List(<<Utterance(JStr(T_hi))>>))}

----------------------------------------------------------------------------
(* Python dicts, as the sequence of their keys in insertion order *)

Range(seq) == {seq[i] : i \in 1..Len(seq)}

\* d[k] = v
DictSet(seq, k) == IF k \in Range(seq) THEN seq ELSE Append(seq, k)

\* del d[k]
DictDel(seq, k) == SelectSeq(seq, LAMBDA x : x # k)

----------------------------------------------------------------------------
(* Sending.  A send_message call is recorded with its outcome; fail is the   *)
(* set of connections on which a send raises while the callback runs (at     *)
(* most one of the connections the callback sends to).                       *)

send_message(server, client, message, fail) ==
    [server |-> server, to |-> client, message |-> message, ok |-> client \notin fail]

\* the loop with the try around it instead of in it: the first send that
\* raises ends the loop
RECURSIVE send_to_each_aborting(_, _, _, _)
send_to_each_aborting(server, clients, message, fail) ==
    IF clients = <<>> THEN <<>>
    ELSE LET s == send_message(server, Head(clients), message, fail)
         IN  IF s.ok
             THEN <<s>> \o send_to_each_aborting(server, Tail(clients), message, fail)
             ELSE <<s>>

\* for client_id, client in clients.items(): try: send_message(...) except: print
RECURSIVE send_to_each(_, _, _, _)
send_to_each(server, clients, message, fail) ==
    IF clients = <<>> THEN <<>>
    ELSE <<send_message(server, Head(clients), message, fail)>>
         \o send_to_each(server, Tail(clients), message, fail)

\* the connections a callback sends to
Targets(sends) == {sends[i].to : i \in 1..Len(sends)}

FailChoices(targets) == {{}} \cup {{c} : c \in targets}

send_to_vocera(message, fail) ==
    IF vocera_clients = <<>> THEN <<>>
    ELSE send_to_each("vocera", vocera_clients, message, fail)

send_to_retell(message, fail) ==
    IF retell_clients = <<>> THEN <<>>
    ELSE send_to_each("retell", retell_clients, message, fail)

----------------------------------------------------------------------------
(* RetellVoceraAdapter: messages it builds *)

ConfigMessage ==
    [response_type |-> "config",
     config |-> [auto_reconnect |-> TRUE, call_details |-> TRUE,
                 transcript_with_tool_calls |-> TRUE]]

PingPong == [response_type |-> "ping_pong", timestamp |-> NOW_MS]

vocera_message(content) == [content |-> content, role |-> "user"]

Response(id, content) ==
    LET low == lower(content.s)
        base == [response_type |-> "response", response_id |-> id,
                 content |-> content, content_complete |-> TRUE]
    IN  IF Contains(low, END_CALL) \/ Contains(low, GOODBYE)
        THEN [response_type |-> "response", response_id |-> id,
              content |-> content, content_complete |-> TRUE, end_call |-> TRUE]
        ELSE base

AgentInterrupt(content) ==
    [response_type |-> "agent_interrupt", interrupt_id |-> NOW_MS, content |-> content,
     content_complete |-> TRUE, no_interruption_allowed |-> TRUE]

----------------------------------------------------------------------------
(* RetellVoceraAdapter: handlers.  A handler is an operator from its input   *)
(* and the state to the sends it makes (out), the value it stores and        *)
(* whether it ended in an exception (exc).                                   *)

\* the pong sent with send_to_retell, to every Retell client
handle_retell_ping_to_all(client, fail) ==
    [out |-> send_to_retell(PingPong, fail), exc |-> "none"]

handle_retell_ping(client, fail) ==
    LET s == send_message("retell", client, PingPong, fail)
    IN  [out |-> <<s>>, exc |-> IF s.ok THEN "none" ELSE "SendError"]

\* only prints; .get on a last utterance that is no object raises
handle_retell_update(data) ==
    LET transcript == Get(data.transcript, List(<<>>))
    IN  [out |-> <<>>,
         exc |-> IF /\ transcript.t = "list"
                    /\ transcript.items # <<>>
                    /\ ~IsObject(transcript.items[Len(transcript.items)])
                 THEN "AttributeError" ELSE "none"]

\* handle_retell_response_request taking transcript[0], the first utterance
handle_retell_response_request_first(data, fail) ==
    LET response_id == GetOrNone(data.response_id)
        transcript == Get(data.transcript, List(<<>>))
        nonempty == transcript.t = "list" /\ transcript.items # <<>>
        first_utterance == transcript.items[1]
    IN  IF ~nonempty
        THEN [last_response_id |-> response_id, out |-> <<>>, exc |-> "none"]
        ELSE IF ~IsObject(first_utterance)
        THEN [last_response_id |-> response_id, out |-> <<>>,
              exc |-> "AttributeError"]
        ELSE [last_response_id |-> response_id,
              out |-> send_to_vocera(
                         vocera_message(Get(first_utterance.content, JStr(<<>>))), fail),
              exc |-> "none"]

handle_retell_response_request(data, fail) ==
    LET response_id == GetOrNone(data.response_id)
        transcript == Get(data.transcript, List(<<>>))
        nonempty == transcript.t = "list" /\ transcript.items # <<>>
        last_utterance == transcript.items[Len(transcript.items)]
    IN  IF ~nonempty
        THEN [last_response_id |-> response_id, out |-> <<>>, exc |-> "none"]
        ELSE IF ~IsObject(last_utterance)
        THEN [last_response_id |-> response_id, out |-> <<>>,
              exc |-> "AttributeError"]
        ELSE [last_response_id |-> response_id,
              out |-> send_to_vocera(
                         vocera_message(Get(last_utterance.content, JStr(<<>>))), fail),
              exc |-> "none"]

handle_vocera_regular_message(message, fail) ==
    LET content == Get(message.content, JStr(<<>>))
    IN  IF Truthy(last_response_id)
        THEN send_to_retell(Response(last_response_id, content), fail)
        ELSE send_to_retell(AgentInterrupt(content), fail)

\* a handler that catches KeyError only
except_KeyError(exc) == IF exc = "KeyError" THEN "none" ELSE exc

\* except Exception as e: print(...): whatever the try block raised ends here
except_Exception(exc) == "none"

\* The try block of on_retell_message: the sends, the value of
\* self.last_response_id after it, and the exception that ended it.
retell_message_try(client, raw, fail) ==
    LET parsed == json_loads(raw)
        keep == [last_response_id |-> last_response_id, out |-> <<>>, exc |-> "none"]
    IN  IF ~parsed.ok THEN [keep EXCEPT !.exc = "JSONDecodeError"]
        ELSE IF ~IsObject(parsed.data) THEN [keep EXCEPT !.exc = "AttributeError"]
        ELSE LET data == parsed.data
                 interaction_type == data.interaction_type
             IN  IF interaction_type = "ping_pong"
                 THEN LET r == handle_retell_ping(client, fail)
                      IN  [keep EXCEPT !.out = r.out, !.exc = r.exc]
                 ELSE IF interaction_type = "call_details" THEN keep
                 ELSE IF interaction_type = "update_only"
                 THEN [keep EXCEPT !.exc = handle_retell_update(data).exc]
                 ELSE IF interaction_type \in {"response_required", "reminder_required"}
                 THEN handle_retell_response_request(data, fail)
                 ELSE keep

\* The try block of on_vocera_message: the sends and the exception that ended it.
vocera_message_try(raw, fail) ==
    LET parsed == json_loads(raw)
    IN  IF ~parsed.ok THEN [out |-> <<>>, exc |-> "JSONDecodeError"]
        ELSE IF ~IsObject(parsed.data) THEN [out |-> <<>>, exc |-> "AttributeError"]
        ELSE LET content == Get(parsed.data.content, JStr(<<>>))
             IN  IF content.t # "str" THEN [out |-> <<>>, exc |-> "AttributeError"]
                 ELSE IF strip(content.s) = <<>> THEN [out |-> <<>>, exc |-> "none"]
                 ELSE [out |-> handle_vocera_regular_message(parsed.data, fail),
                       exc |-> "none"]

\* The request waiting for its response after a frame from Retell: a
\* response_required or reminder_required with an id replaces the one before.
PendingAfterRequest(raw) ==
    IF /\ raw.json = "object"
       /\ raw.interaction_type \in {"response_required", "reminder_required"}
       /\ raw.response_id.t = "int"
    THEN raw.response_id
    ELSE pending

\* The request waiting for its response after a callback's sends: a response
\* envelope that reached a Retell client with its id answers it.
PendingAfterSends(sends) ==
    IF \E i \in 1..Len(sends) :
          /\ sends[i].server = "retell"
          /\ sends[i].ok
          /\ sends[i].message.response_type = "response"
          /\ sends[i].message.response_id = pending
    THEN Null
    ELSE pending

----------------------------------------------------------------------------
(* VoiceFlowAdapter: texts and messages *)

\* "Hi! How can I help you today?"
GREETING ==
    <<"H", "i", "!", " ", "H", "o", "w", " ", "c", "a", "n", " ", "I", " ",
    "h", "e", "l", "p", " ", "y", "o", "u", " ", "t", "o", "d", "a", "y",
    "?">>

\* "Sorry, I couldn't process your message. Please try again later."
SORRY ==
    <<"S", "o", "r", "r", "y", ",", " ", "I", " ", "c", "o", "u", "l", "d",
    "n", "'", "t", " ", "p", "r", "o", "c", "e", "s", "s", " ", "y", "o", "u",
    "r", " ", "m", "e", "s", "s", "a", "g", "e", ".", " ", "P", "l", "e", "a",
    "s", "e", " ", "t", "r", "y", " ", "a", "g", "a", "i", "n", " ", "l", "a",
    "t", "e", "r", ".">>

\* "Conversation ended"
CONVERSATION_ENDED ==
    <<"C", "o", "n", "v", "e", "r", "s", "a", "t", "i", "o", "n", " ", "e",
    "n", "d", "e", "d">>

ContentMessage(text) == [content |-> JStr(text)]
EndMessage == [type |-> "end", content |-> JStr(CONVERSATION_ENDED)]

\* One trace of a VoiceFlow reply: an object with a type and, in its payload,
\* a message; or an element that is no object.
Trace(type, message) == [json |-> "object", type |-> type, message |-> message]

TraceLists ==
    {<<>>,
     <<Trace("text", JStr(T_hi))>>,
     <<Trace("speak", JStr(T_hi)), Trace("text", JStr(T_bye))>>,
     <<Trace("text", JStr(T_hi)), Trace("end", Absent)>>,
     <<Trace("end", Absent)>>,
     <<Trace("visual", JStr(T_hi))>>,
     <<Trace("text", JStr(<<>>)), Trace("speak", Absent)>>,
     <<Trace("end", Absent), Array>>}

\* The outcome of requests.post(...) with raise_for_status() and .json()
RestFailure == [ok |-> FALSE, status |-> "failed"]
RestReply(traces) == [ok |-> TRUE, status |-> "replied", traces |-> traces]
RestOutcomes == {RestFailure} \cup {RestReply(t) : t \in TraceLists}

\* no request was made
NoRequest == [ok |-> FALSE, status |-> "none"]

\* "".join(responses): the texts put together with nothing between them
RECURSIVE join_unseparated(_)
join_unseparated(responses) ==
    IF responses = <<>> THEN <<>>
    ELSE Head(responses) \o join_unseparated(Tail(responses))

\* " ".join(responses)
RECURSIVE join(_)
join(responses) ==
    IF responses = <<>> THEN <<>>
    ELSE IF Len(responses) = 1 THEN Head(responses)
    ELSE Head(responses) \o <<" ">> \o join(Tail(responses))

----------------------------------------------------------------------------
(* VoiceFlowAdapter: handlers *)

\* The loop of process_traces: the texts collected, the sends made, and
\* the exception that ended it (an element that is no object, or a send
\* that raised).
RECURSIVE traces_loop(_, _, _, _, _)
traces_loop(client, traces, responses, sent, fail) ==
    IF traces = <<>> THEN [responses |-> responses, out |-> sent, exc |-> "none"]
    ELSE LET trace == Head(traces)
         IN  IF ~IsObject(trace)
             THEN [responses |-> responses, out |-> sent, exc |-> "AttributeError"]
             ELSE IF trace.type \in {"speak", "text"}
             THEN LET message == Get(trace.message, JStr(<<>>))
                  IN  traces_loop(client, Tail(traces),
                                  IF Truthy(message) THEN Append(responses, message.s)
                                  ELSE responses,
                                  sent, fail)
             ELSE IF trace.type = "end"
             THEN LET s == send_message("client", client, EndMessage, fail)
                  IN  IF s.ok
                      THEN traces_loop(client, Tail(traces), responses,
                                       Append(sent, s), fail)
                      ELSE [responses |-> responses, out |-> Append(sent, s),
                            exc |-> "SendError"]
             ELSE traces_loop(client, Tail(traces), responses, sent, fail)

\* result is the returned value: the combined text, or None
process_traces(client, traces, fail) ==
    LET l == traces_loop(client, traces, <<>>, <<>>, fail)
    IN  IF l.exc # "none" THEN [out |-> l.out, result |-> Null, exc |-> l.exc]
        ELSE IF l.responses # <<>>
        THEN LET combined_response == join(l.responses)
                 s == send_message("client", client,
                                   ContentMessage(combined_response), fail)
             IN  [out |-> Append(l.out, s),
                  result |-> IF s.ok THEN JStr(combined_response) ELSE Null,
                  exc |-> IF s.ok THEN "none" ELSE "SendError"]
        ELSE [out |-> l.out, result |-> Null, exc |-> "none"]

\* handle_client_message with except clauses that only log
handle_client_message_silent(client, message, rest, fail) ==
    IF client \notin DOMAIN sessions THEN [out |-> <<>>, exc |-> "none"]
    ELSE IF ~rest.ok THEN [out |-> <<>>, exc |-> "none"]
    ELSE LET r == process_traces(client, rest.traces, fail)
         IN  [out |-> r.out, exc |-> "none"]

\* handle_client_message: both except clauses send the same apology, and an
\* exception of that send leaves the handler.
handle_client_message(client, message, rest, fail) ==
    LET sorry == send_message("client", client, ContentMessage(SORRY), fail)
        sorry_exc == IF sorry.ok THEN "none" ELSE "SendError"
    IN  IF client \notin DOMAIN sessions
        THEN [out |-> <<sorry>>, exc |-> sorry_exc]
        ELSE IF ~rest.ok THEN [out |-> <<sorry>>, exc |-> sorry_exc]
        ELSE LET r == process_traces(client, rest.traces, fail)
             IN  IF r.exc # "none"
                 THEN [out |-> Append(r.out, sorry), exc |-> sorry_exc]
                 ELSE [out |-> r.out, exc |-> "none"]

\* whether on_client_message gets as far as the POST to VoiceFlow
posts(client, raw) ==
    LET parsed == json_loads(raw)
    IN  /\ parsed.ok
        /\ IsObject(parsed.data)
        /\ Get(parsed.data.content, JStr(<<>>)).t = "str"
        /\ strip(Get(parsed.data.content, JStr(<<>>)).s) # <<>>
        /\ client \in DOMAIN sessions

\* The try block of on_client_message: the sends and the exception that ended it.
client_message_try(client, raw, rest, fail) ==
    LET parsed == json_loads(raw)
    IN  IF ~parsed.ok THEN [out |-> <<>>, exc |-> "JSONDecodeError"]
        ELSE IF ~IsObject(parsed.data) THEN [out |-> <<>>, exc |-> "AttributeError"]
        ELSE LET content == Get(parsed.data.content, JStr(<<>>))
             IN  IF content.t # "str" THEN [out |-> <<>>, exc |-> "AttributeError"]
                 ELSE IF strip(content.s) = <<>> THEN [out |-> <<>>, exc |-> "none"]
                 ELSE handle_client_message(client, strip(content.s), rest, fail)

\* except requests.exceptions.RequestException as e: the failed request ends
\* here; anything else leaves start_conversation and ends its thread
except_RequestException(exc) == IF exc = "RequestException" THEN "none" ELSE exc

\* start_conversation from the POST on: the sends, and the exception that
\* ended the thread.
start_conversation_result(client, rest, fail) ==
    LET greeting == send_message("client", client, ContentMessage(GREETING), fail)
        greeting_exc == IF greeting.ok THEN "none" ELSE "SendError"
    IN  IF ~rest.ok THEN [out |-> <<greeting>>, exc |-> greeting_exc]
        ELSE LET r == process_traces(client, rest.traces, fail)
             IN  IF r.exc # "none"
                 THEN [out |-> r.out, exc |-> except_RequestException(r.exc)]
                 ELSE IF ~Truthy(r.result)
                 THEN [out |-> Append(r.out, greeting), exc |-> greeting_exc]
                 ELSE [out |-> r.out, exc |-> "none"]

----------------------------------------------------------------------------
(* RetellVoceraAdapter: lifecycle handlers *)

\* the registry after on_retell_connect
on_retell_connect(client) == DictSet(retell_clients, client)

\* on_retell_disconnect with the del not guarded by the membership test
on_retell_disconnect_unguarded(client) ==
    [clients |-> DictDel(retell_clients, client),
     exc |-> IF client \in Range(retell_clients) THEN "none" ELSE "KeyError"]

\* the registry after on_retell_disconnect, and the exception it raised
on_retell_disconnect(client) ==
    IF client \in Range(retell_clients)
    THEN [clients |-> DictDel(retell_clients, client), exc |-> "none"]
    ELSE [clients |-> retell_clients, exc |-> "none"]

\* the registry after on_vocera_connect
on_vocera_connect(client) == DictSet(vocera_clients, client)

\* the registry after on_vocera_disconnect, and the exception it raised
on_vocera_disconnect(client) ==
    IF client \in Range(vocera_clients)
    THEN [clients |-> DictDel(vocera_clients, client), exc |-> "none"]
    ELSE [clients |-> vocera_clients, exc |-> "none"]

----------------------------------------------------------------------------
(* VoiceFlowAdapter: lifecycle handlers *)

\* f"user-{uuid.uuid4()}": a user id no earlier connection got
new_user_id == uuid_counter + 1

\* self.sessions after on_client_connect
on_client_connect(client) ==
    [c \in DOMAIN sessions \cup {client} |->
        IF c = client THEN [user_id |-> new_user_id] ELSE sessions[c]]

\* self.sessions after on_client_disconnect, and the exception it raised
\* on_client_disconnect dropping every session, not only the client's
on_client_disconnect_all(client) ==
    [sessions |-> <<>>, exc |-> "none"]

on_client_disconnect(client) ==
    IF client \in DOMAIN sessions
    THEN [sessions |-> [c \in DOMAIN sessions \ {client} |-> sessions[c]],
          exc |-> "none"]
    ELSE [sessions |-> sessions, exc |-> "none"]

\* the first two statements of start_conversation: the session lookup
start_conversation_lookup(client) ==
    IF client \in DOMAIN sessions
    THEN [pc |-> "post", user_id |-> sessions[client].user_id]
    ELSE [pc |-> "KeyError", user_id |-> 0]

----------------------------------------------------------------------------
(* The state after construction *)

\* RetellVoceraAdapter.__init__ and VoiceFlowAdapter.__init__
AdapterInit ==
    /\ retell_clients = <<>>
    /\ vocera_clients = <<>>
    /\ last_response_id = Null
    /\ retell_conns = {}
    /\ retell_connect_pc = [c \in ClientIds |-> "none"]
    /\ broadcast = [pc |-> "idle"]
    /\ vocera_conns = {}
    /\ retell_id_counter = 0
    /\ vocera_id_counter = 0
    /\ pending = Null
    /\ sessions = <<>>
    /\ client_conns = {}
    /\ client_id_counter = 0
    /\ uuid_counter = 0
    /\ sc_pc = [c \in ClientIds |-> "none"]
    /\ sc_user = [c \in ClientIds |-> 0]

\* main.py at import: chat_histories = {} and no connection yet
ChatInit ==
    /\ chat_histories = <<>>
    /\ ws_pc = [w \in ClientIds |-> "none"]
    /\ ws_id = [w \in ClientIds |-> 0]
    /\ ws_counter = 0
    /\ ws_asked = [w \in ClientIds |-> FALSE]

\* __main__ up to the call of adapter.start()
Init ==
    /\ program \in {"retell", "voiceflow"}
    /\ main_pc = "start"
    /\ start_result = "none"
    /\ exit_code = Null
    /\ AdapterInit
    /\ ChatInit
    /\ ev = [kind |-> "init"]
    /\ out = <<>>
    /\ raised = "none"

----------------------------------------------------------------------------
(* __main__: adapter.start(), the sleep loop, and KeyboardInterrupt *)

\* what setting up the websocket servers of a program can come to
BindOutcomes(p) ==
    IF p = "retell" THEN {"ok", "retell_failed", "vocera_failed"}
    ELSE {"ok", "client_failed"}

\* the value start() returns
start(bind) == IF bind = "ok" THEN "True" ELSE "False"

\* the main thread is in its loop and the servers of program p are up
serving(p) == program = p /\ main_pc = "loop" /\ start_result = "True"

\* adapter.start() runs; __main__ goes on to its loop whatever it returned
Start(bind) ==
    /\ main_pc = "start"
    /\ start_result' = start(bind)
    /\ main_pc' = "loop"
    /\ ev' = [kind |-> "start", bind |-> bind]
    /\ out' = <<>>
    /\ raised' = "none"
    /\ UNCHANGED <<program, exit_code, retell_vars, broadcast, voiceflow_vars,
                   chat_vars>>

\* KeyboardInterrupt in the loop: adapter.stop(), and the process ends.  The
\* adapter object is gone with the process: its fields read as in __init__.
Interrupt ==
    /\ program \in {"retell", "voiceflow"}
    /\ main_pc = "loop"
    /\ main_pc' = "exit"
    /\ exit_code' = JInt(0)
    /\ retell_clients' = <<>>
    /\ vocera_clients' = <<>>
    /\ last_response_id' = Null
    /\ retell_conns' = {}
    /\ retell_connect_pc' = [c \in ClientIds |-> "none"]
    /\ broadcast' = [pc |-> "idle"]
    /\ vocera_conns' = {}
    /\ retell_id_counter' = 0
    /\ vocera_id_counter' = 0
    /\ pending' = Null
    /\ sessions' = <<>>
    /\ client_conns' = {}
    /\ client_id_counter' = 0
    /\ uuid_counter' = 0
    /\ sc_pc' = [c \in ClientIds |-> "none"]
    /\ sc_user' = [c \in ClientIds |-> 0]
    /\ ev' = [kind |-> "KeyboardInterrupt"]
    /\ out' = <<>>
    /\ raised' = "none"
    /\ UNCHANGED <<program, start_result, chat_vars>>

----------------------------------------------------------------------------
(* RetellVoceraAdapter: one action per callback of the two servers *)

\* the thread of this connection is inside a broadcast
InBroadcast(server, client) ==
    /\ broadcast.pc = "iterating"
    /\ broadcast.thread = <<server, client>>

\* a Retell client connects: the server gives it the next id, and
\* on_retell_connect stores it in the registry; the config is still to be sent
RetellConnect ==
    /\ serving("retell")
    /\ retell_id_counter < MaxClients
    /\ LET client == retell_id_counter + 1
       IN  /\ retell_id_counter' = client
           /\ retell_conns' = retell_conns \cup {client}
           /\ retell_clients' = on_retell_connect(client)
           /\ retell_connect_pc' = [retell_connect_pc EXCEPT ![client] = "config"]
           /\ ev' = [kind |-> "on_retell_connect", client |-> client]
    /\ out' = <<>>
    /\ raised' = "none"
    /\ UNCHANGED <<process_vars, broadcast, chat_vars, vocera_clients, last_response_id,
                   vocera_conns, vocera_id_counter, pending, voiceflow_vars>>

\* on_retell_connect sends the config to its client and returns
RetellConnectConfig(client, fail) ==
    /\ serving("retell")
    /\ retell_connect_pc[client] = "config"
    /\ LET s == send_message("retell", client, ConfigMessage, fail)
       IN  /\ out' = <<s>>
           /\ raised' = IF s.ok THEN "none" ELSE "send_error"
    /\ retell_connect_pc' = [retell_connect_pc EXCEPT ![client] = "done"]
    /\ ev' = [kind |-> "on_retell_connect_config", client |-> client]
    /\ UNCHANGED <<process_vars, broadcast, chat_vars, retell_clients, vocera_clients,
                   last_response_id, retell_conns, retell_id_counter,
                   vocera_conns, vocera_id_counter, pending, voiceflow_vars>>

\* a Retell connection closes, or the server reports a client as left again
RetellDisconnect(client) ==
    /\ serving("retell")
    /\ client <= retell_id_counter
    /\ retell_connect_pc[client] = "done"
    /\ ~InBroadcast("retell", client)
    /\ LET r == on_retell_disconnect(client)
       IN  /\ retell_clients' = r.clients
           /\ raised' = r.exc
    /\ retell_conns' = retell_conns \ {client}
    /\ out' = <<>>
    /\ ev' = [kind |-> "on_retell_disconnect", client |-> client,
              registered |-> client \in Range(retell_clients)]
    /\ UNCHANGED <<process_vars, broadcast, chat_vars, retell_connect_pc,
                   vocera_clients, last_response_id, vocera_conns,
                   retell_id_counter, vocera_id_counter, pending, voiceflow_vars>>

\* a frame arrives from a connected Retell client
RetellMessage(client, raw, fail) ==
    /\ serving("retell")
    /\ client \in retell_conns
    /\ retell_connect_pc[client] = "done"
    /\ LET r == retell_message_try(client, raw, fail)
       IN  /\ last_response_id' = r.last_response_id
           /\ out' = r.out
           /\ raised' = except_Exception(r.exc)
    /\ pending' = PendingAfterRequest(raw)
    /\ ev' = [kind |-> "on_retell_message", client |-> client, raw |-> raw]
    /\ UNCHANGED <<process_vars, broadcast, chat_vars, retell_connect_pc,
                   retell_clients, vocera_clients, retell_conns,
                   vocera_conns, retell_id_counter, vocera_id_counter,
                   voiceflow_vars>>

\* a Vocera client connects
VoceraConnect ==
    /\ serving("retell")
    /\ vocera_id_counter < MaxClients
    /\ LET client == vocera_id_counter + 1
       IN  /\ vocera_id_counter' = client
           /\ vocera_conns' = vocera_conns \cup {client}
           /\ vocera_clients' = on_vocera_connect(client)
           /\ ev' = [kind |-> "on_vocera_connect", client |-> client]
    /\ out' = <<>>
    /\ raised' = "none"
    /\ UNCHANGED <<process_vars, broadcast, chat_vars, retell_connect_pc,
                   retell_clients, last_response_id, retell_conns,
                   retell_id_counter, pending, voiceflow_vars>>

\* a Vocera connection closes, or the server reports a client as left again
VoceraDisconnect(client) ==
    /\ serving("retell")
    /\ client <= vocera_id_counter
    /\ ~InBroadcast("vocera", client)
    /\ LET r == on_vocera_disconnect(client)
       IN  /\ vocera_clients' = r.clients
           /\ raised' = r.exc
    /\ vocera_conns' = vocera_conns \ {client}
    /\ out' = <<>>
    /\ ev' = [kind |-> "on_vocera_disconnect", client |-> client,
              registered |-> client \in Range(vocera_clients)]
    /\ UNCHANGED <<process_vars, broadcast, chat_vars, retell_connect_pc,
                   retell_clients, last_response_id, retell_conns,
                   retell_id_counter, vocera_id_counter, pending, voiceflow_vars>>

\* a frame arrives from a connected Vocera client
VoceraMessage(client, raw, fail) ==
    /\ serving("retell")
    /\ client \in vocera_conns
    /\ LET r == vocera_message_try(raw, fail)
       IN  /\ out' = r.out
           /\ raised' = except_Exception(r.exc)
           /\ pending' = PendingAfterSends(r.out)
    /\ ev' = [kind |-> "on_vocera_message", client |-> client, raw |-> raw]
    /\ UNCHANGED <<process_vars, broadcast, chat_vars, retell_connect_pc,
                   retell_clients, vocera_clients, last_response_id,
                   retell_conns, vocera_conns, retell_id_counter,
                   vocera_id_counter, voiceflow_vars>>

----------------------------------------------------------------------------
(* VoiceFlowAdapter: one action per callback, and the steps of the          *)
(* start_conversation thread of each connection                             *)

\* on_client_connect calling start_conversation itself, without a thread
ClientConnectInline ==
    /\ serving("voiceflow")
    /\ client_id_counter < MaxClients
    /\ LET client == client_id_counter + 1
       IN  /\ client_id_counter' = client
           /\ client_conns' = client_conns \cup {client}
           /\ sessions' = on_client_connect(client)
           /\ sc_user' = [sc_user EXCEPT ![client] = new_user_id]
           /\ ev' = [kind |-> "on_client_connect", client |-> client]
           /\ \E rest \in RestOutcomes :
                 LET r == start_conversation_result(client, rest, {})
                 IN  /\ out' = r.out
                     /\ raised' = r.exc
                     /\ sc_pc' = [sc_pc EXCEPT ![client] =
                                     IF r.exc = "none" THEN "done" ELSE r.exc]
    /\ uuid_counter' = new_user_id
    /\ UNCHANGED <<process_vars, broadcast, chat_vars, retell_vars>>

\* a client connects: its session is stored and its thread is started
ClientConnect ==
    /\ serving("voiceflow")
    /\ client_id_counter < MaxClients
    /\ LET client == client_id_counter + 1
       IN  /\ client_id_counter' = client
           /\ client_conns' = client_conns \cup {client}
           /\ sessions' = on_client_connect(client)
           /\ sc_pc' = [sc_pc EXCEPT ![client] = "start"]
           /\ ev' = [kind |-> "on_client_connect", client |-> client]
    /\ uuid_counter' = new_user_id
    /\ out' = <<>>
    /\ raised' = "none"
    /\ UNCHANGED <<process_vars, broadcast, chat_vars, retell_vars, sc_user>>

\* a client connection closes, or the server reports a client as left again
ClientDisconnect(client) ==
    /\ serving("voiceflow")
    /\ client <= client_id_counter
    /\ LET r == on_client_disconnect(client)
       IN  /\ sessions' = r.sessions
           /\ raised' = r.exc
    /\ client_conns' = client_conns \ {client}
    /\ out' = <<>>
    /\ ev' = [kind |-> "on_client_disconnect", client |-> client,
              registered |-> client \in DOMAIN sessions]
    /\ UNCHANGED <<process_vars, broadcast, chat_vars, retell_vars, client_id_counter, uuid_counter,
                   sc_pc, sc_user>>

\* a frame arrives from a connected client; rest is what VoiceFlow answers
ClientMessage(client, raw, rest, fail) ==
    /\ serving("voiceflow")
    /\ client \in client_conns
    /\ LET r == client_message_try(client, raw, rest, fail)
       IN  /\ out' = r.out
           /\ raised' = except_Exception(r.exc)
    /\ ev' = [kind |-> "on_client_message", client |-> client, raw |-> raw,
              rest |-> IF posts(client, raw) THEN rest ELSE NoRequest,
              returned |-> IF posts(client, raw) /\ rest.ok
                           THEN process_traces(client, rest.traces, fail).result
                           ELSE Null]
    /\ UNCHANGED <<process_vars, broadcast, chat_vars, retell_vars, voiceflow_vars>>

\* the thread of a connection looks its session up
StartConversationLookup(client) ==
    /\ serving("voiceflow")
    /\ sc_pc[client] = "start"
    /\ LET r == start_conversation_lookup(client)
       IN  /\ sc_pc' = [sc_pc EXCEPT ![client] = r.pc]
           /\ sc_user' = [sc_user EXCEPT ![client] = r.user_id]
           /\ raised' = IF r.pc = "KeyError" THEN "KeyError" ELSE "none"
    /\ out' = <<>>
    /\ ev' = [kind |-> "start_conversation", client |-> client]
    /\ UNCHANGED <<process_vars, broadcast, chat_vars, retell_vars, sessions, client_conns,
                   client_id_counter, uuid_counter>>

\* the launch request of the thread returns and its traces are processed
StartConversationLaunch(client, rest, fail) ==
    /\ serving("voiceflow")
    /\ sc_pc[client] = "post"
    /\ LET r == start_conversation_result(client, rest, fail)
       IN  /\ out' = r.out
           /\ sc_pc' = [sc_pc EXCEPT ![client] = IF r.exc = "none" THEN "done" ELSE r.exc]
           /\ raised' = r.exc
    /\ ev' = [kind |-> "start_conversation_launch", client |-> client, rest |-> rest]
    /\ UNCHANGED <<process_vars, broadcast, chat_vars, retell_vars, sessions, client_conns,
                   client_id_counter, uuid_counter, sc_user>>

----------------------------------------------------------------------------
(* The chat demo (main.py): chat_response and the steps of handle_websocket *)

\* len(chat_histories[session_id]) > 12
HISTORY_LIMIT == 12
\* chat_histories[session_id][-10:]
KEEP_LAST == 10

SYSTEM_PROMPT ==
    [role |-> "system",
     content |-> JStr(<<"Y", "o", "u", "r", " ", "s", "y", "s", "t", "e", "m", " ", "p", "r", "o", "m", "p", "t">>)]

\* the text the client of websocket w types: each connection has its own
UserMessage(w) == JStr(<<"m", ToString(w)>>)

\* what client.chat.completions.create comes to: a completion, whose text
\* is returned, or an exception e, for which "Error: " + str(e) is returned
CompletionOk == [ok |-> TRUE, content |-> JStr(<<"o", "k">>)]
CompletionError == [ok |-> FALSE, content |-> JStr(<<"E", "r", "r", "o", "r", ":", " ", "e">>)]
Completions == {CompletionOk, CompletionError}

\* chat_histories[session_id] = history
HistoriesSet(histories, session_id, history) ==
    [k \in DOMAIN histories \cup {session_id} |->
        IF k = session_id THEN history ELSE histories[k]]

\* if session_id in chat_histories: del chat_histories[session_id]
HistoriesDel(histories, session_id) ==
    [k \in DOMAIN histories \ {session_id} |-> histories[k]]

\* history[-n:]
Last(history, n) ==
    IF Len(history) <= n THEN history
    ELSE SubSeq(history, Len(history) - n + 1, Len(history))

\* chat_response: the histories after the call, the messages it gives to
\* client.chat.completions.create, and the text it returns
chat_response(message, session_id, completion) ==
    LET created == IF session_id \in DOMAIN chat_histories
                   THEN chat_histories[session_id]
                   ELSE <<SYSTEM_PROMPT>>
        asked == Append(created, [role |-> "user", content |-> message])
        answered == Append(asked, [role |-> "assistant", content |-> completion.content])
        limited == IF Len(answered) > HISTORY_LIMIT
                   THEN <<answered[1]>> \o Last(answered, KEEP_LAST)
                   ELSE answered
    IN  IF completion.ok
        THEN [histories |-> HistoriesSet(chat_histories, session_id, limited),
              messages |-> asked, response |-> completion.content]
        ELSE [histories |-> HistoriesSet(chat_histories, session_id, asked),
              messages |-> asked, response |-> completion.content]

\* websocket objects whose handler has not returned
LiveWebsockets == {w \in ClientIds : ws_pc[w] = "open"}

\* values id(websocket) can take for a new object: any address no live
\* object has, the address of an object already collected included
Addresses == 1..MaxClients
FreeAddresses == Addresses \ {ws_id[w] : w \in LiveWebsockets}

RECURSIVE CountEntries(_, _)
CountEntries(histories, keys) ==
    IF keys = {} THEN 0
    ELSE LET k == CHOOSE x \in keys : TRUE
         IN  Len(histories[k]) + CountEntries(histories, keys \ {k})

\* number of entries stored in chat_histories
TotalEntries == CountEntries(chat_histories, DOMAIN chat_histories)

\* how the iteration over the websocket ends: the iterator stops on a normal
\* closure and raises ConnectionClosedError on any other
Closures == {"ConnectionClosedOK", "ConnectionClosedError"}

\* a connection is accepted: handle_websocket starts and sends the greeting
ChatAccept(address, fail) ==
    /\ program = "chat"
    /\ ws_counter < MaxClients
    /\ LET w == ws_counter + 1
           s == send_message("chat", w, [text |-> JStr(GREETING)], fail)
       IN  /\ ws_counter' = w
           /\ ws_id' = [ws_id EXCEPT ![w] = address]
           /\ out' = <<s>>
           /\ ws_pc' = [ws_pc EXCEPT ![w] = IF s.ok THEN "open" ELSE "closed"]
           /\ chat_histories' = IF s.ok THEN chat_histories
                                ELSE HistoriesDel(chat_histories, address)
           /\ ev' = [kind |-> "handle_websocket", client |-> w]
    /\ raised' = "none"
    /\ UNCHANGED <<process_vars, broadcast, retell_vars, voiceflow_vars, ws_asked>>

\* a message arrives on an open websocket: chat_response, then the reply
ChatMessage(w, completion, fail) ==
    /\ program = "chat"
    /\ ws_pc[w] = "open"
    /\ TotalEntries < MaxEntries
    /\ LET r == chat_response(UserMessage(w), ws_id[w], completion)
           s == send_message("chat", w, [text |-> r.response], fail)
       IN  /\ out' = <<s>>
           /\ ws_pc' = [ws_pc EXCEPT ![w] = IF s.ok THEN "open" ELSE "closed"]
           /\ chat_histories' = IF s.ok THEN r.histories
                                ELSE HistoriesDel(r.histories, ws_id[w])
           /\ ev' = [kind |-> "chat_message", client |-> w,
                     completion |-> completion, messages |-> r.messages,
                     first |-> ~ws_asked[w]]
    /\ ws_asked' = [ws_asked EXCEPT ![w] = TRUE]
    /\ raised' = "none"
    /\ UNCHANGED <<process_vars, broadcast, retell_vars, voiceflow_vars, ws_id, ws_counter>>

\* the connection of an open websocket closes while the handler waits
ChatClose(w, closure) ==
    /\ program = "chat"
    /\ ws_pc[w] = "open"
    /\ ws_pc' = [ws_pc EXCEPT ![w] = "closed"]
    /\ chat_histories' = IF closure = "ConnectionClosedError"
                         THEN HistoriesDel(chat_histories, ws_id[w])
                         ELSE chat_histories
    /\ out' = <<>>
    /\ raised' = "none"
    /\ ev' = [kind |-> "chat_close", client |-> w, closure |-> closure]
    /\ UNCHANGED <<process_vars, broadcast, retell_vars, voiceflow_vars, ws_id, ws_counter,
                   ws_asked>>

----------------------------------------------------------------------------
(* RetellVoceraAdapter, the broadcasts step by step: the loop of            *)
(* send_to_vocera runs on the thread of a Retell connection and the loop of *)
(* send_to_retell on the thread of a Vocera connection, and the callbacks   *)
(* of other connections run between two steps of the loop.                  *)

\* the registry a broadcast to the clients of server goes through
clients_of(server) == IF server = "vocera" THEN vocera_clients ELSE retell_clients

\* One step of the iterator of clients.items(), made for a dict of size
\* entries, after the key last: RuntimeError (dictionary changed size during
\* iteration) when the dict has another size now, else the next key, or the
\* end.  Keys are in insertion order, which is the order of the ids.
items_next(server, size, last) ==
    LET later == SelectSeq(clients_of(server), LAMBDA c : c > last)
    IN  IF Len(clients_of(server)) # size THEN [pc |-> "RuntimeError", client |-> 0]
        ELSE IF later = <<>> THEN [pc |-> "done", client |-> 0]
        ELSE [pc |-> "iterating", client |-> Head(later)]

\* the loop a handler enters: the registry is not empty, the iterator is new
Iteration(server, thread, message) ==
    [pc |-> "iterating", server |-> server, thread |-> thread,
     message |-> message, size |-> Len(clients_of(server)),
     start |-> clients_of(server), last |-> 0, sent |-> <<>>]

\* on_retell_message for a request with an utterance, up to the loop of
\* send_to_vocera
RetellRequestBegin(client, raw) ==
    /\ serving("retell")
    /\ client \in retell_conns
    /\ retell_connect_pc[client] = "done"
    /\ broadcast.pc # "iterating"
    /\ LET r == retell_message_try(client, raw, {})
       IN  /\ r.out # <<>>
           /\ r.out[1].server = "vocera"
           /\ last_response_id' = r.last_response_id
           /\ broadcast' = Iteration("vocera", <<"retell", client>>, r.out[1].message)
    /\ pending' = PendingAfterRequest(raw)
    /\ ev' = [kind |-> "send_to_vocera", client |-> client, raw |-> raw]
    /\ out' = <<>>
    /\ raised' = "none"
    /\ UNCHANGED <<process_vars, chat_vars, voiceflow_vars, retell_clients,
                   vocera_clients, retell_conns, retell_connect_pc, vocera_conns,
                   retell_id_counter, vocera_id_counter>>

\* on_vocera_message for a message with content, up to the loop of
\* send_to_retell
VoceraMessageBegin(client, raw) ==
    /\ serving("retell")
    /\ client \in vocera_conns
    /\ broadcast.pc # "iterating"
    /\ LET r == vocera_message_try(raw, {})
       IN  /\ r.out # <<>>
           /\ broadcast' = Iteration("retell", <<"vocera", client>>, r.out[1].message)
    /\ ev' = [kind |-> "send_to_retell", client |-> client, raw |-> raw]
    /\ out' = <<>>
    /\ raised' = "none"
    /\ UNCHANGED <<process_vars, chat_vars, voiceflow_vars, retell_clients,
                   vocera_clients, last_response_id, retell_conns,
                   retell_connect_pc, vocera_conns, retell_id_counter,
                   vocera_id_counter, pending>>

\* one turn of the for loop: the iterator's step and, for a key, the send in
\* its try.  RuntimeError leaves the loop and ends in the except Exception of
\* the message callback.
BroadcastStep(fail) ==
    /\ serving("retell")
    /\ broadcast.pc = "iterating"
    /\ LET n == items_next(broadcast.server, broadcast.size, broadcast.last)
           s == send_message(broadcast.server, n.client, broadcast.message, fail)
       IN  IF n.pc = "iterating"
           THEN /\ broadcast' = [broadcast EXCEPT !.last = n.client,
                                                  !.sent = Append(@, s)]
                /\ out' = <<s>>
                /\ pending' = PendingAfterSends(<<s>>)
                /\ raised' = "none"
           ELSE /\ broadcast' = [broadcast EXCEPT !.pc = n.pc]
                /\ out' = <<>>
                /\ pending' = pending
                /\ raised' = except_Exception(n.pc)
    /\ ev' = [kind |-> "broadcast_step", client |-> broadcast.thread[2]]
    /\ UNCHANGED <<process_vars, chat_vars, voiceflow_vars, retell_clients,
                   vocera_clients, last_response_id, retell_conns,
                   retell_connect_pc, vocera_conns, retell_id_counter,
                   vocera_id_counter>>

----------------------------------------------------------------------------

Next ==
    \/ \E bind \in BindOutcomes(program) : Start(bind)
    \/ Interrupt
    \/ RetellConnect
    \/ \E client \in ClientIds :
          \E fail \in FailChoices({client}) : RetellConnectConfig(client, fail)
    \/ \E client \in ClientIds : RetellDisconnect(client)
    \/ \E client \in retell_conns, raw \in RetellFrames :
          \E fail \in FailChoices(Targets(retell_message_try(client, raw, {}).out)) :
             RetellMessage(client, raw, fail)
    \/ VoceraConnect
    \/ \E client \in ClientIds : VoceraDisconnect(client)
    \/ \E client \in vocera_conns, raw \in VoceraFrames :
          \E fail \in FailChoices(Targets(vocera_message_try(raw, {}).out)) :
             VoceraMessage(client, raw, fail)
    \/ ClientConnect
    \/ \E client \in ClientIds : ClientDisconnect(client)
    \/ \E client \in client_conns, raw \in ClientFrames :
          \E rest \in (IF posts(client, raw) THEN RestOutcomes ELSE {NoRequest}) :
             \E fail \in FailChoices(Targets(client_message_try(client, raw, rest, {}).out)) :
                ClientMessage(client, raw, rest, fail)
    \/ \E client \in ClientIds : StartConversationLookup(client)
    \/ \E client \in ClientIds, rest \in RestOutcomes :
          \E fail \in FailChoices({client}) : StartConversationLaunch(client, rest, fail)

Spec == Init /\ [][Next]_vars

\* the chat demo serving: asyncio.run(main()) with websockets.serve done
InitChat ==
    /\ program = "chat"
    /\ main_pc = "loop"
    /\ start_result = "none"
    /\ exit_code = Null
    /\ AdapterInit
    /\ ChatInit
    /\ ev = [kind |-> "init"]
    /\ out = <<>>
    /\ raised = "none"

NextChat ==
    \/ \E address \in FreeAddresses :
          \E fail \in FailChoices({ws_counter + 1}) : ChatAccept(address, fail)
    \/ \E w \in ClientIds, completion \in Completions :
          \E fail \in FailChoices({w}) : ChatMessage(w, completion, fail)
    \/ \E w \in ClientIds, closure \in Closures : ChatClose(w, closure)

\* the three programs of the repository
InitAll == Init \/ InitChat
NextAll == Next \/ NextChat
SpecAll == InitAll /\ [][NextAll]_vars

\* RetellVoceraAdapter with its broadcasts followed step by step
InitThreads == Init /\ program = "retell"

NextThreads ==
    \/ \E bind \in BindOutcomes(program) : Start(bind)
    \/ Interrupt
    \/ RetellConnect
    \/ \E client \in ClientIds :
          \E fail \in FailChoices({client}) : RetellConnectConfig(client, fail)
    \/ \E client \in ClientIds : RetellDisconnect(client)
    \/ VoceraConnect
    \/ \E client \in ClientIds : VoceraDisconnect(client)
    \/ \E client \in retell_conns, raw \in RetellFrames : RetellRequestBegin(client, raw)
    \/ \E client \in vocera_conns, raw \in VoceraFrames : VoceraMessageBegin(client, raw)
    \/ \E fail \in FailChoices(ClientIds) : BroadcastStep(fail)

SpecThreads == InitThreads /\ [][NextThreads]_vars

----------------------------------------------------------------------------
(* Properties.  What a property says of a frame is said here of the frame   *)
(* itself, not through the operators of the handlers.                       *)

MessageKinds == {"on_retell_message", "on_vocera_message", "on_client_message"}

IsBlankText(s) == \A i \in 1..Len(s) : s[i] \in {" ", "\t", "\n"}

\* an object whose content is a text with something other than whitespace
HasContent(raw) ==
    /\ raw.json = "object"
    /\ raw.content.t = "str"
    /\ ~IsBlankText(raw.content.s)

\* an object whose content is missing, empty or whitespace only
HasBlankContent(raw) ==
    /\ raw.json = "object"
    /\ \/ raw.content.t = "absent"
       \/ raw.content.t = "str" /\ IsBlankText(raw.content.s)

\* a response_required or reminder_required whose last utterance is an object
IsRequestWithUtterance(raw) ==
    /\ raw.json = "object"
    /\ raw.interaction_type \in {"response_required", "reminder_required"}
    /\ raw.transcript.t = "list"
    /\ raw.transcript.items # <<>>
    /\ raw.transcript.items[Len(raw.transcript.items)].json = "object"

\* the clients a callback's sends went to, in order
Receivers(sends) == [i \in 1..Len(sends) |-> sends[i].to]

\* C1: a Vocera message with content goes to Retell as a "response" carrying
\* the id of the request that is pending (received and not answered yet)
\* exactly when there is one, and as an "agent_interrupt" with
\* no_interruption_allowed otherwise, for every response id, 0 included.
C1_ResponseExactlyWhenPending ==
    [][(ev'.kind = "on_vocera_message" /\ HasContent(ev'.raw)) =>
         \A i \in 1..Len(out') :
            LET m == out'[i].message
            IN  IF pending # Null
                THEN m.response_type = "response" /\ m.response_id = pending
                ELSE /\ m.response_type = "agent_interrupt"
                     /\ m.no_interruption_allowed]_vars

\* C2: a downstream frame whose content is missing, empty or whitespace only
\* is ignored by on_vocera_message and on_client_message: nothing is sent,
\* nothing is raised, and registries, sessions and last_response_id stay.
C2_BlankContentIgnored ==
    [][(/\ ev'.kind \in {"on_vocera_message", "on_client_message"}
        /\ HasBlankContent(ev'.raw)) =>
         /\ out' = <<>>
         /\ raised' = "none"
         /\ UNCHANGED <<retell_clients, vocera_clients, last_response_id,
                        sessions, retell_conns, vocera_conns, client_conns>>]_vars

C2_Witness ==
    /\ ev.kind = "on_vocera_message"
    /\ ev.raw = ContentFrame(JStr(T_blank))
    /\ Len(retell_clients) = 2
    /\ last_response_id = JInt(1)

\* C3: a frame that is not valid JSON is dropped on all three sides: nothing
\* is sent, no exception leaves the handler, the registries and connections
\* stay as they were, and the next frame of the same client is processed
\* (a ping is answered, a content message is forwarded or posted).
C3_InvalidJsonDropped ==
    [][/\ (ev'.kind \in MessageKinds /\ ev'.raw = Invalid) =>
            /\ out' = <<>>
            /\ raised' = "none"
            /\ UNCHANGED <<retell_clients, vocera_clients, last_response_id,
                           sessions, retell_conns, vocera_conns, client_conns>>
       /\ (/\ ev.kind \in MessageKinds
           /\ ev.raw = Invalid
           /\ ev'.kind = ev.kind
           /\ ev'.client = ev.client) =>
            /\ (ev'.kind = "on_retell_message" /\ ev'.raw = PingFrame) =>
                   Receivers(out') = <<ev'.client>>
            /\ (ev'.kind = "on_vocera_message" /\ HasContent(ev'.raw)) =>
                   Receivers(out') = retell_clients
            /\ (ev'.kind = "on_client_message" /\ HasContent(ev'.raw)) =>
                   ev'.rest # NoRequest]_vars

C3_Witness ==
    /\ ev.kind = "on_vocera_message"
    /\ ev.raw = Invalid
    /\ ev.client \in Range(vocera_clients)
    /\ retell_clients # <<>>

\* C4: after a downstream client has disconnected, no registry or session
\* table holds an entry for it and the upstream connection paired with it is
\* closed: once the last Vocera client is gone, no Retell connection is open.
C4_DownstreamDisconnectClosesUpstream ==
    /\ ev.kind = "on_vocera_disconnect" =>
          /\ ev.client \notin Range(vocera_clients)
          /\ vocera_conns = {} => retell_conns = {}
    /\ ev.kind = "on_client_disconnect" => ev.client \notin DOMAIN sessions

\* C5: after a Retell connection has closed, the Vocera connection paired
\* with it is closed by the adapter and its session removed: once the last
\* Retell client is gone, no Vocera connection is open or registered.
C5_UpstreamCloseClosesDownstream ==
    (ev.kind = "on_retell_disconnect" /\ retell_conns = {}) =>
        vocera_conns = {} /\ vocera_clients = <<>>

\* C6: a disconnect handler invoked for a client that is not in its registry
\* raises nothing and leaves the registry exactly as it was.
C6_DisconnectIdempotent ==
    [][/\ (ev'.kind = "on_retell_disconnect" /\ ev'.client \notin Range(retell_clients)) =>
            raised' = "none" /\ retell_clients' = retell_clients
       /\ (ev'.kind = "on_vocera_disconnect" /\ ev'.client \notin Range(vocera_clients)) =>
            raised' = "none" /\ vocera_clients' = vocera_clients
       /\ (ev'.kind = "on_client_disconnect" /\ ev'.client \notin DOMAIN sessions) =>
            raised' = "none" /\ sessions' = sessions]_vars

C6_Witness ==
    /\ ev.kind = "on_retell_disconnect"
    /\ ~ev.registered
    /\ retell_clients # <<>>

\* C7: when the client has disconnected before its start_conversation thread
\* looks its session up, the lookup is a no-op: no exception leaves the
\* thread and nothing is sent.
C7_MissingSessionLookupBenign ==
    (ev.kind = "start_conversation" /\ ev.client \notin DOMAIN sessions) =>
        raised = "none" /\ out = <<>>

\* C8: in a broadcast a send that fails does not stop the others: every
\* registered client of the other side gets the message once, in registry
\* order, nothing leaves the handler and both registries stay as they were.
C8_BroadcastFailureContained ==
    [][/\ (ev'.kind = "on_retell_message" /\ IsRequestWithUtterance(ev'.raw)) =>
            /\ Receivers(out') = vocera_clients
            /\ \A i \in 1..Len(out') : out'[i].server = "vocera"
            /\ raised' = "none"
            /\ UNCHANGED <<retell_clients, vocera_clients>>
       /\ (ev'.kind = "on_vocera_message" /\ HasContent(ev'.raw)) =>
            /\ Receivers(out') = retell_clients
            /\ \A i \in 1..Len(out') : out'[i].server = "retell"
            /\ raised' = "none"
            /\ UNCHANGED <<retell_clients, vocera_clients>>]_vars

C8_Witness ==
    /\ ev.kind = "on_retell_message"
    /\ Len(out) = 2
    /\ ~out[1].ok
    /\ out[2].ok
    /\ out[2].message = vocera_message(JStr(T_hi))

\* C9: a ping_pong from a Retell client is answered with one ping_pong, to
\* that client only; nothing goes to Vocera or to another Retell client, and
\* last_response_id and both registries stay as they were.
C9_PingAnsweredInPlace ==
    [][(ev'.kind = "on_retell_message" /\ ev'.raw = PingFrame) =>
         /\ Len(out') = 1
         /\ out'[1].server = "retell"
         /\ out'[1].to = ev'.client
         /\ out'[1].message.response_type = "ping_pong"
         /\ UNCHANGED <<last_response_id, retell_clients, vocera_clients>>]_vars

C9_Witness ==
    /\ ev.kind = "on_retell_message"
    /\ ev.raw = PingFrame
    /\ Len(retell_clients) = 2
    /\ vocera_clients # <<>>
    /\ Len(out) = 1

\* C10: when the VoiceFlow request for a client message fails, one content
\* message, the apology, is sent to that client and to no other, the session
\* stays registered with its user_id, and the next message of the client is
\* processed as usual (a text trace comes back as one content message when
\* the send to the client does not fail).
C10_RestFailureApology ==
    [][/\ (ev'.kind = "on_client_message" /\ ev'.rest = RestFailure) =>
            /\ Len(out') = 1
            /\ out'[1].server = "client"
            /\ out'[1].to = ev'.client
            /\ out'[1].message = [content |-> JStr(SORRY)]
            /\ raised' = "none"
            /\ ev'.client \in DOMAIN sessions'
            /\ sessions' = sessions
       /\ (/\ ev.kind = "on_client_message"
           /\ ev.rest = RestFailure
           /\ ev'.kind = "on_client_message"
           /\ ev'.client = ev.client
           /\ ev'.rest = RestReply(<<Trace("text", JStr(T_hi))>>)
           /\ \A i \in 1..Len(out') : out'[i].ok) =>
            /\ Len(out') = 1
            /\ out'[1].to = ev'.client
            /\ out'[1].message = [content |-> JStr(T_hi)]]_vars

C10_Witness ==
    /\ ev.kind = "on_client_message"
    /\ ev.rest = RestFailure
    /\ Cardinality(DOMAIN sessions) = 2
    /\ Len(out) = 1

\* C11: on_client_connect registers the session of the new client and returns
\* with the launch request of that client still to be made: nothing has been
\* sent, no thread of an earlier client has moved and no earlier session has
\* changed.  A further client can connect whatever the threads of the earlier
\* clients are doing, whether their launch is outstanding or never answered.
C11_ConnectNeverWaits ==
    [][/\ (serving("voiceflow") /\ client_id_counter < MaxClients) =>
            ENABLED ClientConnect
       /\ (ev'.kind = "on_client_connect") =>
            /\ ev'.client \in DOMAIN sessions'
            /\ ev'.client \notin DOMAIN sessions
            /\ sc_pc'[ev'.client] = "start"
            /\ out' = <<>>
            /\ \A c \in ClientIds \ {ev'.client} :
                  /\ sc_pc'[c] = sc_pc[c]
                  /\ c \in DOMAIN sessions =>
                        (c \in DOMAIN sessions' /\ sessions'[c] = sessions[c])]_vars

C11_Witness ==
    /\ ev.kind = "on_client_connect"
    /\ ev.client = 2
    /\ sc_pc[1] \in {"start", "post"}
    /\ sc_pc[2] = "start"
    /\ DOMAIN sessions = {1, 2}

\* C12: a process whose start() returned False ends with a nonzero exit code
\* (it is not left running in its loop, and it does not exit with 0); a
\* process whose start() returned True ends only on KeyboardInterrupt, with
\* its servers shut down and exit code 0.
C12_ExitCodes ==
    /\ start_result = "False" =>
          /\ main_pc = "exit"
          /\ exit_code # Null
          /\ exit_code # JInt(0)
    /\ (start_result = "True" /\ main_pc = "exit") =>
          /\ ev.kind = "KeyboardInterrupt"
          /\ exit_code = JInt(0)
          /\ retell_conns = {} /\ vocera_conns = {} /\ client_conns = {}

\* C15: the chat demo stores a history only for session ids of connections
\* that are open: when a connection has closed, whether normally or not, the
\* history of its session id is gone.
C15_HistoriesOnlyForOpen ==
    DOMAIN chat_histories \subseteq {ws_id[w] : w \in LiveWebsockets}

\* C16: every stored history starts with the system prompt and has at most
\* 12 entries, whether the last OpenAI request succeeded or failed.
C16_HistoryBounded ==
    \A k \in DOMAIN chat_histories :
        /\ Len(chat_histories[k]) >= 1
        /\ chat_histories[k][1] = SYSTEM_PROMPT
        /\ Len(chat_histories[k]) <= 12

\* a message that carries a text and nothing else: {"content": text}
IsContentMessage(message) == DOMAIN message = {"content"}

\* the content messages among the sends of the last callback
ContentMessages == {i \in 1..Len(out) : IsContentMessage(out[i].message)}

\* C13: the server speaks first.  The chat demo sends its greeting when it
\* accepts a connection.  The launch thread of a VoiceFlow connection that
\* is still open does not end before it has sent, to its client, exactly one
\* content message: the launch text or the default greeting.
C13_ServerSpeaksFirst ==
    /\ ev.kind = "handle_websocket" =>
          /\ Len(out) = 1
          /\ out[1].to = ev.client
          /\ out[1].message = [text |-> JStr(GREETING)]
    /\ (/\ ev.kind = "start_conversation_launch"
        /\ ev.client \in client_conns
        /\ \A i \in 1..Len(out) : out[i].ok) =>
          /\ Cardinality(ContentMessages) = 1
          /\ \A i \in ContentMessages : out[i].to = ev.client
          /\ sc_pc[ev.client] = "done"

\* C14: lockstep.  The callback that handles a message with a non-empty
\* content (any message, for the chat demo) makes exactly one send, to the
\* client the message came from; as a connection's messages are handled one
\* after the other, the replies then go out in the order of the messages.
C14_OneReplyPerMessage ==
    /\ ev.kind = "chat_message" =>
          /\ Len(out) = 1
          /\ out[1].to = ev.client
    /\ (ev.kind = "on_client_message" /\ HasContent(ev.raw)) =>
          /\ Len(out) = 1
          /\ out[1].to = ev.client

\* the entries of a registry other than the client's, in their order
Others(registry, client) ==
    SelectSeq(registry, LAMBDA c : c # client)

\* C17: sessions are independent.  A disconnect of a client, or a message
\* from it, leaves the session of every other client of the VoiceFlow adapter
\* stored with the same user_id, and the entry of every other client in the
\* registries of the Retell adapter in place; what the VoiceFlow adapter
\* sends for a message goes to the client the message came from only.
C17_SessionsIndependent ==
    [][/\ ev'.kind \in {"on_client_disconnect", "on_client_message"} =>
            \A c \in DOMAIN sessions \ {ev'.client} :
                /\ c \in DOMAIN sessions'
                /\ sessions'[c] = sessions[c]
       /\ ev'.kind = "on_client_message" =>
            \A i \in 1..Len(out') :
                out'[i].server = "client" /\ out'[i].to = ev'.client
       /\ ev'.kind \in {"on_vocera_disconnect", "on_vocera_message"} =>
            /\ Others(vocera_clients', ev'.client) = Others(vocera_clients, ev'.client)
            /\ retell_clients' = retell_clients
       /\ ev'.kind \in {"on_retell_disconnect", "on_retell_message"} =>
            /\ Others(retell_clients', ev'.client) = Others(retell_clients, ev'.client)
            /\ vocera_clients' = vocera_clients]_vars

C17_Witness ==
    /\ ev.kind = "on_client_disconnect"
    /\ ev.registered
    /\ ev.client = 1
    /\ DOMAIN sessions = {2}
    /\ sessions[2].user_id = 2

\* a response_required or reminder_required with no utterance in it
IsRequestWithoutUtterance(raw) ==
    /\ raw.json = "object"
    /\ raw.interaction_type \in {"response_required", "reminder_required"}
    /\ \/ raw.transcript.t = "absent"
       \/ raw.transcript.t = "list" /\ raw.transcript.items = <<>>

\* the content of the last utterance of a request, '' when it has none
LastContent(raw) ==
    LET last == raw.transcript.items[Len(raw.transcript.items)]
    IN  IF last.content.t = "absent" THEN JStr(<<>>) ELSE last.content

\* the response_id of a request, None when it has none
RequestId(raw) == IF raw.response_id.t = "absent" THEN Null ELSE raw.response_id

\* C18: a response_required or reminder_required whose transcript ends with
\* an utterance makes one send to each connected Vocera client and no other
\* send; each carries {content: content of that utterance, role: "user"}.
\* A request whose transcript is empty or missing makes no send.  In both
\* cases last_response_id is the response_id of the request afterwards.
C18_RequestForwarded ==
    [][ev'.kind = "on_retell_message" =>
         /\ IsRequestWithUtterance(ev'.raw) =>
               /\ Len(out') = Cardinality(vocera_conns)
               /\ {out'[i].to : i \in 1..Len(out')} = vocera_conns
               /\ \A i \in 1..Len(out') :
                     /\ out'[i].server = "vocera"
                     /\ out'[i].message =
                           [content |-> LastContent(ev'.raw), role |-> "user"]
               /\ last_response_id' = RequestId(ev'.raw)
         /\ IsRequestWithoutUtterance(ev'.raw) =>
               /\ out' = <<>>
               /\ last_response_id' = RequestId(ev'.raw)]_vars

C18_Witness ==
    /\ ev.kind = "on_retell_message"
    /\ IsRequestWithUtterance(ev.raw)
    /\ Len(ev.raw.transcript.items) = 2
    /\ Cardinality(vocera_conns) = 2
    /\ Len(out) = 2
    /\ last_response_id = JInt(0)

\* a request with an empty transcript has been taken: only the id is kept
C18_WitnessEmpty ==
    /\ ev.kind = "on_retell_message"
    /\ IsRequestWithoutUtterance(ev.raw)
    /\ vocera_conns # {}
    /\ last_response_id = JInt(0)

\* a reply all of whose traces are objects
IsTraceList(traces) == \A i \in 1..Len(traces) : traces[i].json = "object"

\* the speak and text traces that carry a non-empty message, in trace order
Payloads(traces) ==
    SelectSeq(traces, LAMBDA t : /\ t.type \in {"speak", "text"}
                                 /\ t.message.t = "str"
                                 /\ t.message.s # <<>>)

\* the messages of these traces with one space between neighbours
RECURSIVE Spaced(_)
Spaced(payloads) ==
    IF payloads = <<>> THEN <<>>
    ELSE IF Len(payloads) = 1 THEN payloads[1].message.s
    ELSE Spaced(SubSeq(payloads, 1, Len(payloads) - 1))
            \o <<" ">> \o payloads[Len(payloads)].message.s

EndTraces(traces) == {i \in 1..Len(traces) : traces[i].type = "end"}

\* C19: process_traces, called for a client message on a list of traces
\* (sends succeeding): when some speak/text trace has a non-empty message it
\* sends one content message, the messages joined in trace order by single
\* spaces, and returns that text; when none has, it sends no content message
\* and returns None.  Its only other sends are one end message per end
\* trace: traces of other types give no output.
C19_TracesCombined ==
    [][(/\ ev'.kind = "on_client_message"
        /\ ev'.rest.status = "replied"
        /\ IsTraceList(ev'.rest.traces)
        /\ \A i \in 1..Len(out') : out'[i].ok) =>
         LET traces == ev'.rest.traces
             payloads == Payloads(traces)
             contents == {i \in 1..Len(out') : IsContentMessage(out'[i].message)}
         IN  /\ \A i \in 1..Len(out') : out'[i].to = ev'.client
             /\ payloads # <<>> =>
                   /\ Cardinality(contents) = 1
                   /\ \A i \in contents :
                         out'[i].message = [content |-> JStr(Spaced(payloads))]
                   /\ ev'.returned = JStr(Spaced(payloads))
             /\ payloads = <<>> =>
                   /\ contents = {}
                   /\ ev'.returned = Null
             /\ Len(out') = Cardinality(contents) + Cardinality(EndTraces(traces))
             /\ \A i \in 1..Len(out') \ contents : out'[i].message.type = "end"]_vars

C19_Witness ==
    /\ ev.kind = "on_client_message"
    /\ ev.rest = RestReply(<<Trace("speak", JStr(T_hi)), Trace("text", JStr(T_bye))>>)
    /\ Len(out) = 1
    /\ out[1].ok
    /\ ev.returned = JStr(T_hi \o <<" ">> \o T_bye)

\* the sends of the last callback that carry a config envelope
ConfigSends ==
    {i \in 1..Len(out) : /\ out[i].server = "retell"
                          /\ out[i].message.response_type = "config"}

\* C20: the config envelope is the first message a Retell client is sent,
\* and it is sent once: on_retell_connect sends it to its own client, no
\* other callback sends a config, and nothing else is sent to a Retell client
\* whose on_retell_connect has not sent the config yet, whatever callback of
\* another thread runs in between.
C20_ConfigFirstAndOnce ==
    /\ ev.kind = "on_retell_connect_config" =>
          /\ Len(out) = 1
          /\ out[1].to = ev.client
          /\ out[1].message =
                [response_type |-> "config",
                 config |-> [auto_reconnect |-> TRUE, call_details |-> TRUE,
                             transcript_with_tool_calls |-> TRUE]]
    /\ ev.kind # "on_retell_connect_config" => ConfigSends = {}
    /\ \A i \in 1..Len(out) :
          (out[i].server = "retell" /\ i \notin ConfigSends) =>
             retell_connect_pc[out[i].to] = "done"

\* some speak or text trace with a non-empty message comes before an end trace
TextBeforeEnd(traces) ==
    \E i, j \in 1..Len(traces) :
        /\ i < j
        /\ traces[i].type \in {"speak", "text"}
        /\ traces[i].message.t = "str"
        /\ traces[i].message.s # <<>>
        /\ traces[j].type = "end"

\* C24: the sends for one batch of traces follow trace order.  When a speak
\* or text trace with a message precedes an end trace (sends succeeding), the
\* content message is sent before the end message and the end message
\* {type: "end", content: "Conversation ended"} is the last send of the batch.
C24_EndMessageLast ==
    (/\ ev.kind = "on_client_message"
     /\ ev.rest.status = "replied"
     /\ IsTraceList(ev.rest.traces)
     /\ TextBeforeEnd(ev.rest.traces)
     /\ \A i \in 1..Len(out) : out[i].ok) =>
        /\ out # <<>>
        /\ out[Len(out)].message =
              [type |-> "end", content |-> JStr(CONVERSATION_ENDED)]
        /\ \A i \in ContentMessages : i < Len(out)

\* C22: the initial message of a connection comes before any reply.  When
\* on_client_message sends something to its client, the start_conversation
\* thread of that client has already made its send (it is at its end, not
\* before its lookup or inside its launch request), whatever the interleaving
\* of the thread with the callback.
C22_GreetingBeforeReply ==
    (ev.kind = "on_client_message" /\ out # <<>>) =>
        \A i \in 1..Len(out) : sc_pc[out[i].to] = "done"

\* C23: the first request of a connection.  The messages given to OpenAI
\* for the first message of a websocket are the system prompt and that
\* message, nothing else; and no request of a websocket ever carries a user
\* message typed on another websocket, also when the id of a closed
\* websocket is the id of a later one.
C23_FirstRequestFresh ==
    ev.kind = "chat_message" =>
        /\ ev.first =>
              ev.messages = <<SYSTEM_PROMPT,
                              [role |-> "user", content |-> UserMessage(ev.client)]>>
        /\ \A i \in 1..Len(ev.messages) :
              ev.messages[i].role = "user" =>
                 ev.messages[i].content = UserMessage(ev.client)

\* the clients in the registry from the start of the broadcast until now
RegisteredThroughout ==
    {c \in Range(broadcast.start) : c \in Range(clients_of(broadcast.server))}

\* C21: a broadcast that has ended, by the end of its loop or by an
\* exception, has made a send of its message to every client that was in
\* the registry from its start to its end, whatever connects or disconnects
\* ran on other threads meanwhile.
C21_BroadcastReachesRegistered ==
    broadcast.pc \in {"done", "RuntimeError"} =>
        \A c \in RegisteredThroughout :
            \E i \in 1..Len(broadcast.sent) :
                /\ broadcast.sent[i].to = c
                /\ broadcast.sent[i].message = broadcast.message

====
